---- MODULE Spec2Model ----
(***************************************************************************)
(* Model of the TransactiBatch SDK (src/src/TransactiBatch.ts), its gas    *)
(* estimator (src/src/utils/gasEstimator.ts) and its allowance helper      *)
(* (utils/erc20).  Every public method is an action that runs the          *)
(* synchronous prefix of the method; every `await` on a collaborator is a  *)
(* suspension point (pc) that a later action resolves with one of the      *)
(* collaborator's possible outcomes.                                        *)
(*                                                                         *)
(* Strings that the code parses or formats (amounts, gas prices) are       *)
(* sequences of one-character strings; optional values (`x?: T`) are the   *)
(* empty set (undefined) or a singleton.                                   *)
(***************************************************************************)
EXTENDS Integers, Sequences, FiniteSets, TLC

(***************************************************************************)
(* Bounds of the model                                                     *)
(***************************************************************************)
MaxRecipients == 2
MaxGas == 2
MaxPrice == 5
MaxAllowance == 3

(***************************************************************************)
(* Optional values and JavaScript truthiness                               *)
(***************************************************************************)
Absent == {}
Some(v) == {v}
Get(o) == CHOOSE v \in o : TRUE

\* truthiness of an optional number: undefined and 0 are falsy
TruthyNum(o) == o # Absent /\ Get(o) # 0
\* truthiness of an optional string: undefined and "" are falsy
TruthyStr(o) == o # Absent /\ Get(o) # <<>>

\* a || b on optional numbers / strings
OrNum(a, b) == IF TruthyNum(a) THEN a ELSE b
OrStr(a, b) == IF TruthyStr(a) THEN a ELSE b

(***************************************************************************)
(* ethers.BigNumber: from(string), toString()                              *)
(***************************************************************************)
Digits == <<"0", "1", "2", "3", "4", "5", "6", "7", "8", "9">>
IsDigit(c) == \E i \in 1..10 : Digits[i] = c
DigitVal(c) == (CHOOSE i \in 1..10 : Digits[i] = c) - 1
AllDigits(s) == Len(s) > 0 /\ \A i \in 1..Len(s) : IsDigit(s[i])

\* BigNumber.from(s) accepts exactly the strings matching /^-?[0-9]+$/
\* (hexadecimal strings are not part of the bounded input set)
BigNumberFromOk(s) ==
  IF Len(s) > 0 /\ s[1] = "-" THEN AllDigits(Tail(s)) ELSE AllDigits(s)

RECURSIVE NatOf(_)
NatOf(s) == IF Len(s) = 0 THEN 0
            ELSE NatOf(SubSeq(s, 1, Len(s) - 1)) * 10 + DigitVal(s[Len(s)])

BigNumberFrom(s) == IF s[1] = "-" THEN 0 - NatOf(Tail(s)) ELSE NatOf(s)

RECURSIVE NatToString(_)
NatToString(n) == IF n < 10 THEN <<Digits[n + 1]>>
                  ELSE NatToString(n \div 10) \o <<Digits[(n % 10) + 1]>>

BigNumberToString(n) == IF n < 0 THEN <<"-">> \o NatToString(0 - n) ELSE NatToString(n)

\* mutant: the callback returns the element instead of adding it to the accumulator
ReduceAdd_last(amounts) == IF Len(amounts) = 0 THEN 0 ELSE amounts[Len(amounts)]

\* amounts.reduce((acc, amount) => acc.add(amount), BigNumber.from(0))
RECURSIVE ReduceAdd(_)
ReduceAdd(amounts) == IF Len(amounts) = 0 THEN 0
                      ELSE ReduceAdd(SubSeq(amounts, 1, Len(amounts) - 1)) + amounts[Len(amounts)]

\* recipients.map(r => r.address)
Addresses(recipients) == [i \in 1..Len(recipients) |-> recipients[i].address]
\* the amount strings of a recipient list, in order
Amounts(recipients) == [i \in 1..Len(recipients) |-> recipients[i].amount]
TokenAmounts(recipients) == [i \in 1..Len(recipients) |-> recipients[i].tokenAmount]
EthAmounts(recipients) == [i \in 1..Len(recipients) |-> recipients[i].ethAmount]
\* strings.map(s => BigNumber.from(s))
BigNumbers(strings) == [i \in 1..Len(strings) |-> BigNumberFrom(strings[i])]

(***************************************************************************)
(* Bounded input sets                                                      *)
(***************************************************************************)
Tokens == {"T"}
Signers == {"S1"}

\* amount strings a caller may pass: two decimal numbers, a negative number
\* and a string that is no number
AmountStrings == {<<"1">>, <<"2">>, <<"-", "1">>, <<"x">>}

\* (tokenAmount, ethAmount) pairs of a mixed recipient
MixedAmountPairs ==
  { <<(<<"2">>), (<<"1">>)>>, <<(<<"1">>), (<<"2">>)>>,
    <<(<<"-", "1">>), (<<"1">>)>>,
    <<(<<"x">>), (<<"1">>)>>, <<(<<"1">>), (<<"x">>)>> }

\* address lists: the first k addresses of the pool, in both orders
AddressPool == <<"A", "B", "C", "D">>
Reverse(l) == [i \in 1..Len(l) |-> l[Len(l) + 1 - i]]
AddressLists ==
  UNION { {SubSeq(AddressPool, 1, k), Reverse(SubSeq(AddressPool, 1, k))} :
          k \in 0..MaxRecipients }

\* a collection argument may be missing (undefined), empty or non-empty
Collections(S) == {Absent} \cup { Some(l) : l \in S }

\* recipient lists: an address list with one amount string per address
RecipientLists ==
  UNION { { [i \in 1..Len(l) |-> [address |-> l[i], amount |-> a[i]]] :
            a \in [1..Len(l) -> AmountStrings] } : l \in AddressLists }
MixedRecipientLists ==
  UNION { { [i \in 1..Len(l) |->
              [address |-> l[i], tokenAmount |-> a[i][1], ethAmount |-> a[i][2]]] :
            a \in [1..Len(l) -> MixedAmountPairs] } : l \in AddressLists }

EthBatchParamsSet == [recipients : Collections(RecipientLists)]
EthEqualBatchParamsSet == [addresses : Collections(AddressLists), amount : AmountStrings]
TokenBatchParamsSet == [tokenAddress : Tokens, recipients : Collections(RecipientLists)]
TokenEqualBatchParamsSet ==
  [tokenAddress : Tokens, addresses : Collections(AddressLists), amount : AmountStrings]
MixedBatchParamsSet == [tokenAddress : Tokens, recipients : Collections(MixedRecipientLists)]
MixedEqualBatchParamsSet ==
  { [tokenAddress |-> t, addresses |-> c, tokenAmount |-> p[1], ethAmount |-> p[2]] :
      t \in Tokens, c \in Collections(AddressLists), p \in MixedAmountPairs }
EthToTwoParamsSet ==
  [recipient1 : {"A"}, amount1 : AmountStrings, recipient2 : {"B"}, amount2 : AmountStrings]

\* TransactionOptions {gasLimit?: number, gasPrice?: string, nonce?: number}
OptionsSet ==
  { [gasLimit |-> Absent,  gasPrice |-> Absent,        nonce |-> Absent],
    [gasLimit |-> Some(5), gasPrice |-> Absent,        nonce |-> Some(7)],
    [gasLimit |-> Absent,  gasPrice |-> Some(<<"3">>), nonce |-> Absent],
    [gasLimit |-> Some(0), gasPrice |-> Some(<<>>),    nonce |-> Absent],
    [gasLimit |-> Absent,  gasPrice |-> Some(<<"x">>), nonce |-> Absent] }

\* SdkConfig {provider, contractAddress, defaultGasLimit?, defaultGasPrice?}
ConfigSet ==
  { [provider |-> "P", contractAddress |-> "C",
     defaultGasLimit |-> Some(9), defaultGasPrice |-> Absent],
    [provider |-> "P", contractAddress |-> "C",
     defaultGasLimit |-> Absent, defaultGasPrice |-> Some(<<"4">>)] }

\* what the collaborators may answer: simulated gas limits, network gas
\* prices, token allowances
GasLimits == {1, MaxGas}
GasPrices == {0, 1, MaxPrice}
Allowances == 0..MaxAllowance

(***************************************************************************)
(* Errors                                                                  *)
(***************************************************************************)
\* an Error object: what it is, the total its message quotes (a string, ""
\* when it quotes none) and the error its message embeds ("none" when none)
Err(type, quoted, cause) == [type |-> type, quoted |-> quoted, cause |-> cause]
NoError == Err("none", <<>>, "none")

\* new Error('No recipients provided') / new Error('No addresses provided')
EmptyRecipientSet == Err("EmptyRecipientSet", <<>>, "none")
\* new Error('No signer provided. Call connect() to provide a signer.')
NoSignerAttached == Err("NoSignerAttached", <<>>, "none")
\* the INVALID_ARGUMENT error BigNumber.from throws
InvalidAmount == Err("InvalidAmount", <<>>, "none")
\* new Error(`Insufficient token allowance. ... at least ${total} tokens.`)
InsufficientAllowance(total) == Err("InsufficientAllowance", BigNumberToString(total), "none")
\* new Error(`Failed to estimate gas: ${error}`)
EstimationFailed(cause) == Err("EstimationFailed", <<>>, cause.type)
\* new Error(`Failed to get recommended gas price: ${error}`)
GasPriceFailed(cause) == Err("GasPriceFailed", <<>>, cause.type)

\* errors raised by the collaborators (ledger client, signer, token contract)
TransportFailure == Err("TransportFailure", <<>>, "none")
Revert == Err("Revert", <<>>, "none")
UnsupportedOperation == Err("UnsupportedOperation", <<>>, "none")

(***************************************************************************)
(* State                                                                   *)
(***************************************************************************)
VARIABLES
  provider,         \* this.provider
  contract,         \* this.contract: the binding [address, signer]
  contractAddress,  \* this.contractAddress
  defaultGasLimit,  \* this.defaultGasLimit
  defaultGasPrice,  \* this.defaultGasPrice
  pc,               \* "idle", the collaborator call the running method awaits, or
                    \* "done" once the method has returned or thrown
  frame,            \* the running (or last) method call: arguments and locals
  net,              \* the collaborator calls that method call has issued, in order
  result,           \* what that method call returned or threw
  connectResult,    \* what the last connect returned, and the binding it found
  previous          \* the estimate call a caller keeps to compare the next one with

vars == <<provider, contract, contractAddress, defaultGasLimit, defaultGasPrice,
          pc, frame, net, result, connectResult, previous>>
fields == <<provider, contract, contractAddress, defaultGasLimit, defaultGasPrice>>

NoValue == [none |-> TRUE]
Pending == [status |-> "pending", error |-> NoError, value |-> NoValue]
Thrown(e) == [status |-> "thrown", error |-> e, value |-> NoValue]
Returned(v) == [status |-> "returned", error |-> NoError, value |-> v]

\* the contract call a method has prepared: method name, positional
\* arguments, and the trailing overrides object (send) or value (estimate)
Call(method, args, overrides) == [method |-> method, args |-> args, overrides |-> overrides]
NoCall == Call("none", <<>>, [none |-> TRUE])

\* arguments and locals of a method call; `rejection` is the error with which
\* an awaited collaborator call rejected
NewFrame(op, params, options) ==
  [op |-> op, params |-> params, options |-> options,
   call |-> NoCall, totalAmount |-> Absent,
   signerAddress |-> Absent, allowance |-> Absent, hasAllowance |-> Absent,
   gasLimit |-> Absent, gasPrice |-> Absent, rejection |-> Absent]

NoFrame == NewFrame("none", [none |-> TRUE],
                    [gasLimit |-> Absent, gasPrice |-> Absent, nonce |-> Absent])
NoResult == [status |-> "none", error |-> NoError, value |-> NoValue]
NoPrevious == [op |-> "none"]

\* constructor(config)
Init ==
  \E config \in ConfigSet :
    /\ provider = config.provider
    /\ contractAddress = config.contractAddress
    /\ contract = [address |-> config.contractAddress, provider |-> config.provider,
                   signer |-> Absent]
    /\ defaultGasLimit = config.defaultGasLimit
    /\ defaultGasPrice = config.defaultGasPrice
    /\ pc = "idle"
    /\ frame = NoFrame
    /\ net = <<>>
    /\ result = NoResult
    /\ connectResult = Absent
    /\ previous = NoPrevious

\* the TransactiBatch instance the methods are called on
This == "this"

\* connect(signer): this.contract = this.contract.connect(signer); return this
connect ==
  \E signer \in Signers :
    /\ contract' = [contract EXCEPT !.signer = Some(signer)]
    /\ connectResult' = Some([instance |-> This, found |-> contract])
    /\ UNCHANGED <<provider, contractAddress, defaultGasLimit, defaultGasPrice,
                   pc, frame, net, result, previous>>

(***************************************************************************)
(* Steps of a method call                                                  *)
(***************************************************************************)
\* the method throws: the call is over
Throw(e) == pc' = "done" /\ result' = Thrown(e)
\* the method returns v
Return(v) == pc' = "done" /\ result' = Returned(v)
\* the method issues a collaborator call and awaits it
Await(label, call) == pc' = label /\ net' = Append(net, call) /\ result' = Pending

\* positional arguments of a contract call
AddressArg(a) == [address |-> a]
AddressesArg(l) == [addresses |-> l]
BigNumberArg(n) == [bn |-> n]
BigNumbersArg(l) == [bns |-> l]
StringArg(s) == [str |-> s]

\* mutant: the length test is dropped, only a missing collection is rejected
IsEmpty_missingOnly(collection) == collection = Absent

\* `!recipients || recipients.length === 0`
IsEmpty(collection) == collection = Absent \/ Len(Get(collection)) = 0

\* mutant: the signer check is dropped
NoSigner_unchecked == FALSE

\* `!this.contract.signer`
NoSigner == contract.signer = Absent

\* { gasLimit: options.gasLimit || this.defaultGasLimit,
\*   gasPrice: options.gasPrice || this.defaultGasPrice, value, nonce: options.nonce }
TxOptions(options, value) ==
  [gasLimit |-> OrNum(options.gasLimit, defaultGasLimit),
   gasPrice |-> OrStr(options.gasPrice, defaultGasPrice),
   value |-> value,
   nonce |-> options.nonce]

\* this.contract.<method>(...args, txOptions), on the binding as it is now
SendCall(call) ==
  [kind |-> "send", method |-> call.method, args |-> call.args,
   overrides |-> call.overrides, signer |-> contract.signer]

\* contract.estimateGas[method](...params, {value, gasLimit: options.gasLimit})
EstimateGasCall(method, params, value, options) ==
  [kind |-> "estimateGas", method |-> method, args |-> params,
   overrides |-> [value |-> value, gasLimit |-> options.gasLimit],
   signer |-> contract.signer]

\* a method call starts only when none is running; it touches no field
Begin == pc = "idle" /\ UNCHANGED <<fields, connectResult, previous>>
\* the synchronous prefix throws before any collaborator call
Fail(f, e) == frame' = f /\ net' = <<>> /\ Throw(e)
\* the synchronous prefix ends in the first collaborator call
Issue(f, label, call) == frame' = f /\ net' = <<call>> /\ pc' = label /\ result' = Pending

\* mutant: the call is submitted instead of simulated
estimateGas_submits(f, call, options) ==
  Issue([f EXCEPT !.call = call], "send",
        [kind |-> "send", method |-> call.method, args |-> call.args,
         overrides |-> call.overrides, signer |-> contract.signer])

\* estimateGas(this.contract, method, params, value, options): up to the first await
estimateGas(f, call, options) ==
  Issue([f EXCEPT !.call = call], "estimateGas",
        EstimateGasCall(call.method, call.args, call.overrides.value, options))

\* this.contract.signer.getAddress()
GetAddressCall == [kind |-> "getAddress", signer |-> contract.signer]

\* the part of a token or mixed send that follows the local checks: with the
\* call arguments and the aggregated token total computed, look the signer up
CheckAllowanceThenSend(f, call, totalAmount) ==
  Issue([f EXCEPT !.call = call, !.totalAmount = Some(totalAmount)],
        "getAddress", GetAddressCall)

\* every BigNumber.from of a list of strings succeeds
AllParse(strings) == \A i \in 1..Len(strings) : BigNumberFromOk(strings[i])

(***************************************************************************)
(* ETH, variable amounts                                                   *)
(***************************************************************************)
sendEthBatch_call(recipients, options) ==
  LET addresses == Addresses(recipients)
      amounts == BigNumbers(Amounts(recipients))
      totalValue == ReduceAdd(amounts)
  IN  Call("multiTransfer_OST", <<AddressesArg(addresses), BigNumbersArg(amounts)>>,
           TxOptions(options, Some(BigNumberToString(totalValue))))

sendEthBatch ==
  /\ Begin
  /\ \E params \in EthBatchParamsSet, options \in OptionsSet :
    LET f == NewFrame("sendEthBatch", params, options) IN
    IF IsEmpty(params.recipients) THEN Fail(f, EmptyRecipientSet)
       ELSE LET recipients == Get(params.recipients) IN
         IF ~AllParse(Amounts(recipients)) THEN Fail(f, InvalidAmount)
         ELSE LET call == sendEthBatch_call(recipients, options) IN
              Issue([f EXCEPT !.call = call], "send", SendCall(call))

estimateEthBatchGas_call(recipients) ==
  LET addresses == Addresses(recipients)
      amounts == BigNumbers(Amounts(recipients))
      totalValue == ReduceAdd(amounts)
  IN  Call("multiTransfer_OST", <<AddressesArg(addresses), BigNumbersArg(amounts)>>,
           [value |-> BigNumberToString(totalValue)])

\* estimateEthBatchGas(params, options)
estimateEthBatchGas_of(params, options) ==
    LET f == NewFrame("estimateEthBatchGas", params, options) IN
    IF IsEmpty(params.recipients) THEN Fail(f, EmptyRecipientSet)
       ELSE LET recipients == Get(params.recipients) IN
         IF ~AllParse(Amounts(recipients)) THEN Fail(f, InvalidAmount)
         ELSE estimateGas(f, estimateEthBatchGas_call(recipients), options)

estimateEthBatchGas ==
  /\ Begin
  /\ \E params \in EthBatchParamsSet, options \in OptionsSet :
       estimateEthBatchGas_of(params, options)

(***************************************************************************)
(* ETH, equal amounts                                                      *)
(***************************************************************************)
\* mutant: the attached value is the per-recipient amount, not amount x count
sendEthEqualBatch_call_unscaled(addresses, amount, options) ==
  LET amountBN == BigNumberFrom(amount)
  IN  Call("multiTransferEqual_L1R", <<AddressesArg(addresses), BigNumberArg(amountBN)>>,
           TxOptions(options, Some(BigNumberToString(amountBN))))

sendEthEqualBatch_call(addresses, amount, options) ==
  LET amountBN == BigNumberFrom(amount)
      totalValue == amountBN * Len(addresses)
  IN  Call("multiTransferEqual_L1R", <<AddressesArg(addresses), BigNumberArg(amountBN)>>,
           TxOptions(options, Some(BigNumberToString(totalValue))))

\* mutant: the ETH send queries a token allowance before it submits
sendEthEqualBatch_withAllowance ==
  /\ Begin
  /\ \E params \in EthEqualBatchParamsSet, options \in OptionsSet :
    LET f == NewFrame("sendEthEqualBatch", params, options) IN
    IF IsEmpty(params.addresses) THEN Fail(f, EmptyRecipientSet)
       ELSE IF ~BigNumberFromOk(params.amount) THEN Fail(f, InvalidAmount)
       ELSE Issue([f EXCEPT !.call = sendEthEqualBatch_call(Get(params.addresses),
                                                            params.amount, options)],
                  "send", [kind |-> "allowance", token |-> "T", owner |-> "a1",
                           spender |-> contractAddress, provider |-> provider,
                           signer |-> contract.signer])

sendEthEqualBatch ==
  /\ Begin
  /\ \E params \in EthEqualBatchParamsSet, options \in OptionsSet :
    LET f == NewFrame("sendEthEqualBatch", params, options) IN
    IF IsEmpty(params.addresses) THEN Fail(f, EmptyRecipientSet)
       ELSE IF ~BigNumberFromOk(params.amount) THEN Fail(f, InvalidAmount)
       ELSE LET call == sendEthEqualBatch_call(Get(params.addresses), params.amount, options) IN
            Issue([f EXCEPT !.call = call], "send", SendCall(call))

estimateEthEqualBatchGas_call(addresses, amount) ==
  LET amountBN == BigNumberFrom(amount)
      totalValue == amountBN * Len(addresses)
  IN  Call("multiTransferEqual_L1R", <<AddressesArg(addresses), BigNumberArg(amountBN)>>,
           [value |-> BigNumberToString(totalValue)])

\* estimateEthEqualBatchGas(params, options)
estimateEthEqualBatchGas_of(params, options) ==
    LET f == NewFrame("estimateEthEqualBatchGas", params, options) IN
    IF IsEmpty(params.addresses) THEN Fail(f, EmptyRecipientSet)
       ELSE IF ~BigNumberFromOk(params.amount) THEN Fail(f, InvalidAmount)
       ELSE estimateGas(f, estimateEthEqualBatchGas_call(Get(params.addresses), params.amount),
                        options)

estimateEthEqualBatchGas ==
  /\ Begin
  /\ \E params \in EthEqualBatchParamsSet, options \in OptionsSet :
       estimateEthEqualBatchGas_of(params, options)

(***************************************************************************)
(* Token, variable amounts                                                 *)
(***************************************************************************)
sendTokenBatch_totalAmount(recipients) ==
  ReduceAdd(BigNumbers(Amounts(recipients)))

sendTokenBatch_call(tokenAddress, recipients, options) ==
  LET addresses == Addresses(recipients)
      amounts == BigNumbers(Amounts(recipients))
      totalAmount == sendTokenBatch_totalAmount(recipients)
  IN  Call("multiTransferToken_a4A",
           <<AddressArg(tokenAddress), AddressesArg(addresses), BigNumbersArg(amounts),
             BigNumberArg(totalAmount)>>,
           TxOptions(options, Absent))

sendTokenBatch ==
  /\ Begin
  /\ \E params \in TokenBatchParamsSet, options \in OptionsSet :
    LET f == NewFrame("sendTokenBatch", params, options) IN
    IF IsEmpty(params.recipients) THEN Fail(f, EmptyRecipientSet)
       ELSE IF NoSigner THEN Fail(f, NoSignerAttached)
       ELSE LET recipients == Get(params.recipients) IN
         IF ~AllParse(Amounts(recipients)) THEN Fail(f, InvalidAmount)
         ELSE CheckAllowanceThenSend(f,
                sendTokenBatch_call(params.tokenAddress, recipients, options),
                sendTokenBatch_totalAmount(recipients))

estimateTokenBatchGas_call(tokenAddress, recipients) ==
  LET addresses == Addresses(recipients)
      amounts == BigNumbers(Amounts(recipients))
      totalAmount == ReduceAdd(amounts)
  IN  Call("multiTransferToken_a4A",
           <<AddressArg(tokenAddress), AddressesArg(addresses), BigNumbersArg(amounts),
             BigNumberArg(totalAmount)>>,
           [value |-> <<"0">>])

\* estimateTokenBatchGas(params, options)
estimateTokenBatchGas_of(params, options) ==
    LET f == NewFrame("estimateTokenBatchGas", params, options) IN
    IF IsEmpty(params.recipients) THEN Fail(f, EmptyRecipientSet)
       ELSE LET recipients == Get(params.recipients) IN
         IF ~AllParse(Amounts(recipients)) THEN Fail(f, InvalidAmount)
         ELSE estimateGas(f, estimateTokenBatchGas_call(params.tokenAddress, recipients),
                          options)

estimateTokenBatchGas ==
  /\ Begin
  /\ \E params \in TokenBatchParamsSet, options \in OptionsSet :
       estimateTokenBatchGas_of(params, options)

(***************************************************************************)
(* Token, equal amounts                                                    *)
(***************************************************************************)
\* amountBN.mul(addresses.length)
sendTokenEqualBatch_totalAmount(addresses, amount) == BigNumberFrom(amount) * Len(addresses)

sendTokenEqualBatch_call(tokenAddress, addresses, amount, options) ==
  LET amountBN == BigNumberFrom(amount)
  IN  Call("multiTransferTokenEqual_71p",
           <<AddressArg(tokenAddress), AddressesArg(addresses), BigNumberArg(amountBN)>>,
           TxOptions(options, Absent))

sendTokenEqualBatch ==
  /\ Begin
  /\ \E params \in TokenEqualBatchParamsSet, options \in OptionsSet :
    LET f == NewFrame("sendTokenEqualBatch", params, options) IN
    IF IsEmpty(params.addresses) THEN Fail(f, EmptyRecipientSet)
       ELSE IF NoSigner THEN Fail(f, NoSignerAttached)
       ELSE IF ~BigNumberFromOk(params.amount) THEN Fail(f, InvalidAmount)
       ELSE CheckAllowanceThenSend(f,
              sendTokenEqualBatch_call(params.tokenAddress, Get(params.addresses),
                                       params.amount, options),
              sendTokenEqualBatch_totalAmount(Get(params.addresses), params.amount))

\* mutant: the estimate passes the aggregated total where the send passes
\* the per-recipient amount
estimateTokenEqualBatchGas_call_total(tokenAddress, addresses, amount) ==
  LET amountBN == BigNumberFrom(amount)
  IN  Call("multiTransferTokenEqual_71p",
           <<AddressArg(tokenAddress), AddressesArg(addresses),
             BigNumberArg(amountBN * Len(addresses))>>,
           [value |-> <<"0">>])

estimateTokenEqualBatchGas_call(tokenAddress, addresses, amount) ==
  LET amountBN == BigNumberFrom(amount)
  IN  Call("multiTransferTokenEqual_71p",
           <<AddressArg(tokenAddress), AddressesArg(addresses), BigNumberArg(amountBN)>>,
           [value |-> <<"0">>])

\* estimateTokenEqualBatchGas(params, options)
estimateTokenEqualBatchGas_of(params, options) ==
    LET f == NewFrame("estimateTokenEqualBatchGas", params, options) IN
    IF IsEmpty(params.addresses) THEN Fail(f, EmptyRecipientSet)
       ELSE IF ~BigNumberFromOk(params.amount) THEN Fail(f, InvalidAmount)
       ELSE estimateGas(f,
              estimateTokenEqualBatchGas_call(params.tokenAddress, Get(params.addresses),
                                              params.amount),
              options)

estimateTokenEqualBatchGas ==
  /\ Begin
  /\ \E params \in TokenEqualBatchParamsSet, options \in OptionsSet :
       estimateTokenEqualBatchGas_of(params, options)

(***************************************************************************)
(* Mixed (token + ETH), variable amounts                                   *)
(***************************************************************************)
MixedBatch_allParse(recipients) ==
  /\ AllParse(TokenAmounts(recipients))
  /\ AllParse(EthAmounts(recipients))

sendMixedBatch_totalTokenAmount(recipients) ==
  ReduceAdd(BigNumbers(TokenAmounts(recipients)))

sendMixedBatch_call(tokenAddress, recipients, options) ==
  LET addresses == Addresses(recipients)
      tokenAmounts == BigNumbers(TokenAmounts(recipients))
      ethAmounts == BigNumbers(EthAmounts(recipients))
      totalTokenAmount == sendMixedBatch_totalTokenAmount(recipients)
      totalEthValue == ReduceAdd(ethAmounts)
  IN  Call("multiTransferTokenEther",
           <<AddressArg(tokenAddress), AddressesArg(addresses), BigNumbersArg(tokenAmounts),
             BigNumberArg(totalTokenAmount), BigNumbersArg(ethAmounts)>>,
           TxOptions(options, Some(BigNumberToString(totalEthValue))))

sendMixedBatch ==
  /\ Begin
  /\ \E params \in MixedBatchParamsSet, options \in OptionsSet :
    LET f == NewFrame("sendMixedBatch", params, options) IN
    IF IsEmpty(params.recipients) THEN Fail(f, EmptyRecipientSet)
       ELSE IF NoSigner THEN Fail(f, NoSignerAttached)
       ELSE LET recipients == Get(params.recipients) IN
         IF ~MixedBatch_allParse(recipients) THEN Fail(f, InvalidAmount)
         ELSE CheckAllowanceThenSend(f,
                sendMixedBatch_call(params.tokenAddress, recipients, options),
                sendMixedBatch_totalTokenAmount(recipients))

estimateMixedBatchGas_call(tokenAddress, recipients) ==
  LET addresses == Addresses(recipients)
      tokenAmounts == BigNumbers(TokenAmounts(recipients))
      ethAmounts == BigNumbers(EthAmounts(recipients))
      totalTokenAmount == ReduceAdd(tokenAmounts)
      totalEthValue == ReduceAdd(ethAmounts)
  IN  Call("multiTransferTokenEther",
           <<AddressArg(tokenAddress), AddressesArg(addresses), BigNumbersArg(tokenAmounts),
             BigNumberArg(totalTokenAmount), BigNumbersArg(ethAmounts)>>,
           [value |-> BigNumberToString(totalEthValue)])

\* estimateMixedBatchGas(params, options)
estimateMixedBatchGas_of(params, options) ==
    LET f == NewFrame("estimateMixedBatchGas", params, options) IN
    IF IsEmpty(params.recipients) THEN Fail(f, EmptyRecipientSet)
       ELSE LET recipients == Get(params.recipients) IN
         IF ~MixedBatch_allParse(recipients) THEN Fail(f, InvalidAmount)
         ELSE estimateGas(f, estimateMixedBatchGas_call(params.tokenAddress, recipients),
                          options)

estimateMixedBatchGas ==
  /\ Begin
  /\ \E params \in MixedBatchParamsSet, options \in OptionsSet :
       estimateMixedBatchGas_of(params, options)

(***************************************************************************)
(* Mixed (token + ETH), equal amounts                                      *)
(***************************************************************************)
\* tokenAmountBN.mul(addresses.length)
sendMixedEqualBatch_totalTokenAmount(addresses, tokenAmount) ==
  BigNumberFrom(tokenAmount) * Len(addresses)

sendMixedEqualBatch_call(tokenAddress, addresses, tokenAmount, ethAmount, options) ==
  LET tokenAmountBN == BigNumberFrom(tokenAmount)
      ethAmountBN == BigNumberFrom(ethAmount)
      totalEthValue == ethAmountBN * Len(addresses)
  IN  Call("multiTransferTokenEtherEqual",
           <<AddressArg(tokenAddress), AddressesArg(addresses), BigNumberArg(tokenAmountBN),
             BigNumberArg(ethAmountBN)>>,
           TxOptions(options, Some(BigNumberToString(totalEthValue))))

sendMixedEqualBatch ==
  /\ Begin
  /\ \E params \in MixedEqualBatchParamsSet, options \in OptionsSet :
    LET f == NewFrame("sendMixedEqualBatch", params, options) IN
    IF IsEmpty(params.addresses) THEN Fail(f, EmptyRecipientSet)
       ELSE IF NoSigner THEN Fail(f, NoSignerAttached)
       ELSE IF ~(BigNumberFromOk(params.tokenAmount) /\ BigNumberFromOk(params.ethAmount))
         THEN Fail(f, InvalidAmount)
       ELSE CheckAllowanceThenSend(f,
              sendMixedEqualBatch_call(params.tokenAddress, Get(params.addresses),
                                       params.tokenAmount, params.ethAmount, options),
              sendMixedEqualBatch_totalTokenAmount(Get(params.addresses), params.tokenAmount))

estimateMixedEqualBatchGas_call(tokenAddress, addresses, tokenAmount, ethAmount) ==
  LET tokenAmountBN == BigNumberFrom(tokenAmount)
      ethAmountBN == BigNumberFrom(ethAmount)
      totalEthValue == ethAmountBN * Len(addresses)
  IN  Call("multiTransferTokenEtherEqual",
           <<AddressArg(tokenAddress), AddressesArg(addresses), BigNumberArg(tokenAmountBN),
             BigNumberArg(ethAmountBN)>>,
           [value |-> BigNumberToString(totalEthValue)])

\* estimateMixedEqualBatchGas(params, options)
estimateMixedEqualBatchGas_of(params, options) ==
    LET f == NewFrame("estimateMixedEqualBatchGas", params, options) IN
    IF IsEmpty(params.addresses) THEN Fail(f, EmptyRecipientSet)
       ELSE IF ~(BigNumberFromOk(params.tokenAmount) /\ BigNumberFromOk(params.ethAmount))
         THEN Fail(f, InvalidAmount)
       ELSE estimateGas(f,
              estimateMixedEqualBatchGas_call(params.tokenAddress, Get(params.addresses),
                                              params.tokenAmount, params.ethAmount),
              options)

estimateMixedEqualBatchGas ==
  /\ Begin
  /\ \E params \in MixedEqualBatchParamsSet, options \in OptionsSet :
       estimateMixedEqualBatchGas_of(params, options)

(***************************************************************************)
(* ETH to two recipients                                                   *)
(***************************************************************************)
\* mutant: the two amounts change places
sendEthToTwo_call_swapped(recipient1, amount1, recipient2, amount2, options) ==
  Call("transfer2",
       <<AddressArg(recipient1), BigNumberArg(BigNumberFrom(amount2)),
         AddressArg(recipient2), BigNumberArg(BigNumberFrom(amount1))>>,
       TxOptions(options,
                 Some(BigNumberToString(BigNumberFrom(amount1) + BigNumberFrom(amount2)))))

sendEthToTwo_call(recipient1, amount1, recipient2, amount2, options) ==
  LET amount1BN == BigNumberFrom(amount1)
      amount2BN == BigNumberFrom(amount2)
      totalValue == amount1BN + amount2BN
  IN  Call("transfer2",
           <<AddressArg(recipient1), BigNumberArg(amount1BN),
             AddressArg(recipient2), BigNumberArg(amount2BN)>>,
           TxOptions(options, Some(BigNumberToString(totalValue))))

sendEthToTwo ==
  /\ Begin
  /\ \E params \in EthToTwoParamsSet, options \in OptionsSet :
    LET f == NewFrame("sendEthToTwo", params, options) IN
    IF ~(BigNumberFromOk(params.amount1) /\ BigNumberFromOk(params.amount2))
         THEN Fail(f, InvalidAmount)
       ELSE LET call == sendEthToTwo_call(params.recipient1, params.amount1,
                                          params.recipient2, params.amount2, options) IN
            Issue([f EXCEPT !.call = call], "send", SendCall(call))

estimateEthToTwoGas_call(recipient1, amount1, recipient2, amount2) ==
  LET amount1BN == BigNumberFrom(amount1)
      amount2BN == BigNumberFrom(amount2)
      totalValue == amount1BN + amount2BN
  IN  Call("transfer2",
           <<AddressArg(recipient1), BigNumberArg(amount1BN),
             AddressArg(recipient2), BigNumberArg(amount2BN)>>,
           [value |-> BigNumberToString(totalValue)])

\* estimateEthToTwoGas(params, options)
estimateEthToTwoGas_of(params, options) ==
    LET f == NewFrame("estimateEthToTwoGas", params, options) IN
    IF ~(BigNumberFromOk(params.amount1) /\ BigNumberFromOk(params.amount2))
         THEN Fail(f, InvalidAmount)
       ELSE estimateGas(f, estimateEthToTwoGas_call(params.recipient1, params.amount1,
                                                    params.recipient2, params.amount2),
                        options)

estimateEthToTwoGas ==
  /\ Begin
  /\ \E params \in EthToTwoParamsSet, options \in OptionsSet :
       estimateEthToTwoGas_of(params, options)

(***************************************************************************)
(* approveTokenSpending, getGasPrices                                      *)
(***************************************************************************)
ApproveGasLimit == 60000

\* mutant: the token, not the batch contract, is named as spender
ApproveCall_tokenAsSpender(tokenAddress, amount, options) ==
  [kind |-> "approve", method |-> "approve", token |-> tokenAddress,
   args |-> <<AddressArg(tokenAddress), StringArg(amount)>>,
   overrides |-> [gasLimit |-> OrNum(options.gasLimit, Some(ApproveGasLimit)),
                  gasPrice |-> OrStr(options.gasPrice, defaultGasPrice),
                  nonce |-> options.nonce],
   signer |-> contract.signer]

\* getERC20Contract(tokenAddress, this.contract.signer)
\*   .approve(this.contractAddress, amount, txOptions)
ApproveCall(tokenAddress, amount, options) ==
  [kind |-> "approve", method |-> "approve", token |-> tokenAddress,
   args |-> <<AddressArg(contractAddress), StringArg(amount)>>,
   overrides |-> [gasLimit |-> OrNum(options.gasLimit, Some(ApproveGasLimit)),
                  gasPrice |-> OrStr(options.gasPrice, defaultGasPrice),
                  nonce |-> options.nonce],
   signer |-> contract.signer]

\* mutant: the gas limit resolved for the approval is stored as the default
approveTokenSpending_storesGasLimit ==
  /\ pc = "idle"
  /\ \E tokenAddress \in Tokens, amount \in AmountStrings, options \in OptionsSet :
    LET f == NewFrame("approveTokenSpending",
                      [tokenAddress |-> tokenAddress, amount |-> amount], options) IN
    /\ defaultGasLimit' = OrNum(options.gasLimit, Some(ApproveGasLimit))
    /\ UNCHANGED <<provider, contract, contractAddress, defaultGasPrice,
                   connectResult, previous>>
    /\ IF NoSigner THEN Fail(f, NoSignerAttached)
         ELSE Issue(f, "send", ApproveCall(tokenAddress, amount, options))

approveTokenSpending ==
  /\ Begin
  /\ \E tokenAddress \in Tokens, amount \in AmountStrings, options \in OptionsSet :
    LET f == NewFrame("approveTokenSpending",
                      [tokenAddress |-> tokenAddress, amount |-> amount], options) IN
    IF NoSigner THEN Fail(f, NoSignerAttached)
       ELSE Issue(f, "send", ApproveCall(tokenAddress, amount, options))

\* provider.getGasPrice()
GetGasPriceCall(prov) == [kind |-> "getGasPrice", provider |-> prov]

\* getGasPrices(): getRecommendedGasPrice(this.provider), up to its await
getGasPrices ==
  /\ Begin
  /\ Issue(NewFrame("getGasPrices", [none |-> TRUE],
                    [gasLimit |-> Absent, gasPrice |-> Absent, nonce |-> Absent]),
           "tiers", GetGasPriceCall(provider))

(***************************************************************************)
(* The collaborators answer                                                *)
(***************************************************************************)
\* the address of a signer
AddressOf(signer) == IF signer = "S1" THEN "a1" ELSE "a2"

\* mutant: the error of the collaborator is replaced by a new one
Propagate_wrapped(error) ==
  /\ frame' = [frame EXCEPT !.rejection = Some(error)]
  /\ Throw(Err("Error", <<>>, error.type))
  /\ UNCHANGED net

\* mutant: a rejected call is issued again (up to four calls) before giving up
Propagate_retried(error) ==
  IF Len(net) < 4
    THEN /\ net' = Append(net, net[Len(net)])
         /\ UNCHANGED <<pc, frame, result>>
    ELSE /\ frame' = [frame EXCEPT !.rejection = Some(error)]
         /\ Throw(error)
         /\ UNCHANGED net

\* an awaited call rejects where the method has no try/catch: the error
\* leaves the method as it is
Propagate(error) ==
  /\ frame' = [frame EXCEPT !.rejection = Some(error)]
  /\ Throw(error)
  /\ UNCHANGED net

\* tokenContract.allowance(ownerAddress, spenderAddress), on a token contract
\* bound to the provider
AllowanceCall(tokenAddress, ownerAddress, spenderAddress, prov) ==
  [kind |-> "allowance", token |-> tokenAddress, owner |-> ownerAddress,
   spender |-> spenderAddress, provider |-> prov]

\* signer.getAddress() resolves or rejects; on success the method goes on to
\* hasEnoughAllowance(tokenAddress, signerAddress, this.contractAddress,
\*                    totalAmount, this.provider)
getAddress_settles ==
  /\ pc = "getAddress"
  /\ UNCHANGED <<fields, connectResult, previous>>
  /\ \/ Propagate(TransportFailure)
     \/ LET signerAddress == AddressOf(Get(net[Len(net)].signer)) IN
        /\ frame' = [frame EXCEPT !.signerAddress = Some(signerAddress)]
        /\ Await("allowance",
                 AllowanceCall(frame.params.tokenAddress, signerAddress,
                               contractAddress, provider))

\* mutant: an allowance equal to the amount needed is not enough
hasEnoughAllowance_strict(allowance, amountNeeded) == allowance > amountNeeded

\* allowance.gte(amountNeeded)
hasEnoughAllowance(allowance, amountNeeded) == allowance >= amountNeeded

\* mutant: the verdict of the allowance check is ignored
RejectsAllowance_never(hasAllowance) == FALSE

\* `if (!hasAllowance) throw ...`
RejectsAllowance(hasAllowance) == ~hasAllowance

\* tokenContract.allowance() resolves or rejects; the method throws on an
\* insufficient allowance and otherwise submits the prepared contract call
allowance_settles ==
  /\ pc = "allowance"
  /\ UNCHANGED <<fields, connectResult, previous>>
  /\ \/ Propagate(TransportFailure)
     \/ \E allowance \in Allowances :
          LET totalAmount == Get(frame.totalAmount)
              hasAllowance == hasEnoughAllowance(allowance, totalAmount) IN
          /\ frame' = [frame EXCEPT !.allowance = Some(allowance),
                                    !.hasAllowance = Some(hasAllowance)]
          /\ IF RejectsAllowance(hasAllowance)
               THEN Throw(InsufficientAllowance(totalAmount)) /\ UNCHANGED net
               ELSE Await("send", SendCall(frame.call))

\* the transaction response of a submitted call
TransactionResponse == [hash |-> "0xtx"]

\* the submitted contract call (or token approval) resolves or rejects; a
\* binding without signer cannot send and rejects
send_settles ==
  /\ pc = "send"
  /\ UNCHANGED <<fields, connectResult, previous>>
  /\ IF net[Len(net)].signer = Absent
       THEN Propagate(UnsupportedOperation)
       ELSE \/ Propagate(TransportFailure)
            \/ Return(TransactionResponse) /\ UNCHANGED <<frame, net>>

\* mutant: the total cost adds where it should multiply
GasEstimation_sum(gasLimit, gasPrice) ==
  [gasLimit |-> gasLimit, gasPrice |-> gasPrice, totalCost |-> gasLimit + gasPrice]

\* mutant: the cost of the estimation made before is carried into the total
GasEstimation_accumulated(gasLimit, gasPrice) ==
  [gasLimit |-> gasLimit, gasPrice |-> gasPrice,
   totalCost |-> gasLimit * gasPrice +
                 (IF previous # NoPrevious /\ previous.result.status = "returned"
                    THEN previous.result.value.totalCost ELSE 0)]

\* { gasLimit, gasPrice, totalCost: gasLimit.mul(gasPrice) }
GasEstimation(gasLimit, gasPrice) ==
  [gasLimit |-> gasLimit, gasPrice |-> gasPrice, totalCost |-> gasLimit * gasPrice]

\* mutant: a failed estimation is swallowed and a zero estimate returned
estimateGas_catch_zero(error) == Returned(GasEstimation(0, 0))

\* estimateGas: `catch (error) { throw new Error(`Failed to estimate gas: ${error}`) }`
estimateGas_catch(error) == Thrown(EstimationFailed(error))

\* `options.gasPrice ? BigNumber.from(options.gasPrice) : await getGasPrice()`
UsesOptionGasPrice(options) == TruthyStr(options.gasPrice)

\* the gas simulation resolves or rejects
estimateGas_settles ==
  /\ pc = "estimateGas"
  /\ UNCHANGED <<fields, connectResult, previous>>
  /\ \/ \E error \in {Revert, TransportFailure} :
          /\ frame' = [frame EXCEPT !.rejection = Some(error)]
          /\ pc' = "done"
          /\ result' = estimateGas_catch(error)
          /\ UNCHANGED net
     \/ \E gasLimit \in GasLimits :
          IF UsesOptionGasPrice(frame.options)
            THEN /\ pc' = "done"
                 /\ IF BigNumberFromOk(Get(frame.options.gasPrice))
                      THEN LET gasPrice == BigNumberFrom(Get(frame.options.gasPrice)) IN
                           /\ frame' = [frame EXCEPT !.gasLimit = Some(gasLimit),
                                                     !.gasPrice = Some(gasPrice)]
                           /\ result' = Returned(GasEstimation(gasLimit, gasPrice))
                      ELSE /\ frame' = [frame EXCEPT !.gasLimit = Some(gasLimit)]
                           /\ result' = estimateGas_catch(InvalidAmount)
                 /\ UNCHANGED net
            ELSE /\ frame' = [frame EXCEPT !.gasLimit = Some(gasLimit)]
                 /\ Await("getGasPrice", GetGasPriceCall(contract.provider))

\* contract.provider.getGasPrice() resolves or rejects inside estimateGas
getGasPrice_settles ==
  /\ pc = "getGasPrice"
  /\ UNCHANGED <<fields, connectResult, previous, net>>
  /\ pc' = "done"
  /\ \/ /\ frame' = [frame EXCEPT !.rejection = Some(TransportFailure)]
        /\ result' = estimateGas_catch(TransportFailure)
     \/ \E gasPrice \in GasPrices :
          /\ frame' = [frame EXCEPT !.gasPrice = Some(gasPrice)]
          /\ result' = Returned(GasEstimation(Get(frame.gasLimit), gasPrice))

\* mutant: the division is made before the multiplication
GasPriceTiers_divFirst(gasPrice) ==
  [slow |-> (gasPrice \div 100) * 90, average |-> gasPrice,
   fast |-> (gasPrice \div 100) * 120]

\* { slow: gasPrice.mul(90).div(100), average: gasPrice, fast: gasPrice.mul(120).div(100) }
GasPriceTiers(gasPrice) ==
  [slow |-> (gasPrice * 90) \div 100, average |-> gasPrice,
   fast |-> (gasPrice * 120) \div 100]

\* getRecommendedGasPrice:
\* `catch (error) { throw new Error(`Failed to get recommended gas price: ${error}`) }`
getRecommendedGasPrice_catch(error) == Thrown(GasPriceFailed(error))

\* provider.getGasPrice() resolves or rejects inside getRecommendedGasPrice
tiers_settle ==
  /\ pc = "tiers"
  /\ UNCHANGED <<fields, connectResult, previous, net>>
  /\ pc' = "done"
  /\ \/ /\ frame' = [frame EXCEPT !.rejection = Some(TransportFailure)]
        /\ result' = getRecommendedGasPrice_catch(TransportFailure)
     \/ \E gasPrice \in GasPrices :
          /\ frame' = [frame EXCEPT !.gasPrice = Some(gasPrice)]
          /\ result' = Returned(GasPriceTiers(gasPrice))

\* the caller has the outcome of the method call; the call's arguments and
\* locals are gone (nothing of a call outlives it)
settled ==
  /\ pc = "done"
  /\ pc' = "idle"
  /\ frame' = NoFrame
  /\ net' = <<>>
  /\ result' = NoResult
  /\ UNCHANGED <<fields, connectResult, previous>>

(***************************************************************************)
(* Specification                                                           *)
(***************************************************************************)
Next ==
  \/ connect
  \/ getGasPrices
  \/ sendEthBatch
  \/ estimateEthBatchGas
  \/ sendEthEqualBatch
  \/ estimateEthEqualBatchGas
  \/ sendTokenBatch
  \/ estimateTokenBatchGas
  \/ sendTokenEqualBatch
  \/ estimateTokenEqualBatchGas
  \/ sendMixedBatch
  \/ estimateMixedBatchGas
  \/ sendMixedEqualBatch
  \/ estimateMixedEqualBatchGas
  \/ sendEthToTwo
  \/ estimateEthToTwoGas
  \/ approveTokenSpending
  \/ getAddress_settles
  \/ allowance_settles
  \/ send_settles
  \/ estimateGas_settles
  \/ getGasPrice_settles
  \/ tiers_settle
  \/ settled

Spec == Init /\ [][Next]_vars

(***************************************************************************)
(* A caller that makes the same estimate twice                             *)
(***************************************************************************)
\* what the network answered to the running call
Answers(f) == [gasLimit |-> f.gasLimit, gasPrice |-> f.gasPrice, rejection |-> f.rejection]

\* the caller keeps the outcome of the first estimate
settled_first ==
  /\ pc = "done"
  /\ previous = NoPrevious
  /\ previous' = [op |-> frame.op, params |-> frame.params, options |-> frame.options,
                  answers |-> Answers(frame), result |-> result]
  /\ pc' = "idle"
  /\ frame' = NoFrame
  /\ net' = <<>>
  /\ result' = NoResult
  /\ UNCHANGED <<fields, connectResult>>

\* the caller has compared the second estimate with the first
settled_second ==
  /\ pc = "done"
  /\ previous # NoPrevious
  /\ previous' = NoPrevious
  /\ pc' = "idle"
  /\ frame' = NoFrame
  /\ net' = <<>>
  /\ result' = NoResult
  /\ UNCHANGED <<fields, connectResult>>

\* the second call repeats the method, the arguments and the options of the first
Again(op) == Begin /\ previous.op = op
First == previous = NoPrevious

\* the network layer is stubbed: it answers the second call as it answered
\* the first
Stubbed ==
  previous # NoPrevious =>
    /\ frame'.gasLimit = previous.answers.gasLimit
    /\ pc' = "done" => Answers(frame') = previous.answers

\* between the two calls the caller may attach a signer
BetweenCalls == previous # NoPrevious /\ pc = "idle"

NextTwice ==
  \/ First /\ estimateEthBatchGas
  \/ First /\ estimateEthEqualBatchGas
  \/ First /\ estimateTokenBatchGas
  \/ First /\ estimateTokenEqualBatchGas
  \/ First /\ estimateMixedBatchGas
  \/ First /\ estimateMixedEqualBatchGas
  \/ First /\ estimateEthToTwoGas
  \/ settled_first
  \/ BetweenCalls /\ connect
  \/ Again("estimateEthBatchGas")
       /\ estimateEthBatchGas_of(previous.params, previous.options)
  \/ Again("estimateEthEqualBatchGas")
       /\ estimateEthEqualBatchGas_of(previous.params, previous.options)
  \/ Again("estimateTokenBatchGas")
       /\ estimateTokenBatchGas_of(previous.params, previous.options)
  \/ Again("estimateTokenEqualBatchGas")
       /\ estimateTokenEqualBatchGas_of(previous.params, previous.options)
  \/ Again("estimateMixedBatchGas")
       /\ estimateMixedBatchGas_of(previous.params, previous.options)
  \/ Again("estimateMixedEqualBatchGas")
       /\ estimateMixedEqualBatchGas_of(previous.params, previous.options)
  \/ Again("estimateEthToTwoGas")
       /\ estimateEthToTwoGas_of(previous.params, previous.options)
  \/ estimateGas_settles /\ Stubbed
  \/ getGasPrice_settles /\ Stubbed
  \/ settled_second

SpecTwice == Init /\ [][NextTwice]_vars

(***************************************************************************)
(* Vocabulary of the properties                                            *)
(***************************************************************************)
EthSendOps == {"sendEthBatch", "sendEthEqualBatch", "sendEthToTwo"}
TokenSendOps ==
  {"sendTokenBatch", "sendTokenEqualBatch", "sendMixedBatch", "sendMixedEqualBatch"}
VariantSendOps == TokenSendOps \cup {"sendEthBatch", "sendEthEqualBatch"}
VariantEstimateOps ==
  {"estimateEthBatchGas", "estimateEthEqualBatchGas", "estimateTokenBatchGas",
   "estimateTokenEqualBatchGas", "estimateMixedBatchGas", "estimateMixedEqualBatchGas"}
EstimateOps == VariantEstimateOps \cup {"estimateEthToTwoGas"}
EthOps == EthSendOps \cup
          {"estimateEthBatchGas", "estimateEthEqualBatchGas", "estimateEthToTwoGas"}

\* the recipient/address collection of a variant request
CollectionOf(f) ==
  IF "recipients" \in DOMAIN f.params THEN f.params.recipients ELSE f.params.addresses
EmptyOrMissing(c) == c = {} \/ Get(c) = <<>>

\* network calls of the running method call, by kind
Issued(kind) == \E i \in 1..Len(net) : net[i].kind = kind
CountIssued(kind) == Cardinality({ i \in 1..Len(net) : net[i].kind = kind })
LastCall == net[Len(net)]

\* decimal numerals, read independently of the BigNumber operators
Numeral == <<"0", "1", "2", "3", "4", "5", "6", "7", "8", "9">>
Unsigned(n) == IF n < 10 THEN <<Numeral[n + 1]>>
               ELSE <<Numeral[(n \div 10) + 1], Numeral[(n % 10) + 1]>>
Decimal(n) == IF n < 0 THEN <<"-">> \o Unsigned(0 - n) ELSE Unsigned(n)
IsInteger(s) == \E n \in -99..99 : Decimal(n) = s
IsNonNegativeInteger(s) == \E n \in 0..99 : Decimal(n) = s
ValueOfNumeral(s) == CHOOSE n \in -99..99 : Decimal(n) = s

RECURSIVE SumOf(_)
SumOf(ints) == IF ints = <<>> THEN 0 ELSE Head(ints) + SumOf(Tail(ints))

\* the native-coin value a call carries: an overrides object without `value`
\* attaches nothing, i.e. zero
AttachedValue(overrides) ==
  IF overrides.value = {} THEN 0 ELSE ValueOfNumeral(Get(overrides.value))

Done == pc = "done"
ThrewType(type) == Done /\ result.status = "thrown" /\ result.error.type = type
HasReturned == Done /\ result.status = "returned"

(***************************************************************************)
(* C1                                                                      *)
(***************************************************************************)
\* C1: in the four token/mixed sends, whenever the allowance check returns
\* false the call has failed with InsufficientAllowance and has submitted no
\* contract call.
C1_InsufficientAllowanceBlocksDispatch ==
  (frame.op \in TokenSendOps /\ frame.hasAllowance = {FALSE}) =>
    /\ ThrewType("InsufficientAllowance")
    /\ ~Issued("send")

C1_Witness ==
  /\ frame.op = "sendMixedEqualBatch"
  /\ frame.hasAllowance = {FALSE}
  /\ Done

(***************************************************************************)
(* C2                                                                      *)
(***************************************************************************)
\* C2: each of the twelve send/estimate entry points of the six variants,
\* called with an empty or missing collection, fails with EmptyRecipientSet
\* and has issued no network call, whatever the signer and the options.
C2_EmptyFailsBeforeNetwork ==
  (frame.op \in VariantSendOps \cup VariantEstimateOps
     /\ EmptyOrMissing(CollectionOf(frame))) =>
    /\ ThrewType("EmptyRecipientSet")
    /\ net = <<>>

C2_Witness ==
  /\ frame.op = "estimateTokenEqualBatchGas"
  /\ frame.params.addresses = {<<>>}
  /\ frame.options.gasPrice # {}
  /\ contract.signer # {}
  /\ ThrewType("EmptyRecipientSet")

(***************************************************************************)
(* C3                                                                      *)
(***************************************************************************)
\* C3: a token or mixed send with a non-empty collection, called while no
\* signer is attached, fails with NoSignerAttached without any network call
\* (a signer is never detached, so a binding without signer had none when the
\* method was called); no estimate and no pure-ETH send fails with
\* NoSignerAttached.
C3_SignerPrecondition ==
  /\ (frame.op \in TokenSendOps /\ ~EmptyOrMissing(CollectionOf(frame))
        /\ contract.signer = {}) =>
       (ThrewType("NoSignerAttached") /\ net = <<>>)
  /\ frame.op \in EstimateOps \cup EthSendOps => result.error.type # "NoSignerAttached"

C3_Witness ==
  /\ frame.op = "sendTokenBatch"
  /\ ~EmptyOrMissing(frame.params.recipients)
  /\ contract.signer = {}
  /\ ThrewType("NoSignerAttached")

(***************************************************************************)
(* C4                                                                      *)
(***************************************************************************)
\* C4: a pure-ETH operation (the three ETH sends and their estimates) issues
\* no allowance query.
C4_EthNeverQueriesAllowance ==
  frame.op \in EthOps => CountIssued("allowance") = 0

C4_Witness ==
  /\ frame.op = "sendEthEqualBatch"
  /\ HasReturned
  /\ Len(net) = 1

(***************************************************************************)
(* C5                                                                      *)
(***************************************************************************)
\* the entry point, positional arguments and native-coin value of each
\* variant, written from the request alone
ExpectedDispatch(f) ==
  LET q == f.params
      list == Get(CollectionOf(f))
      n == Len(list)
      amountsOf(field(_)) == [i \in 1..n |-> ValueOfNumeral(field(list[i]))]
      addresses == [i \in 1..n |-> list[i].address]
  IN CASE f.op = "sendEthBatch" ->
            [method |-> "multiTransfer_OST",
             args |-> <<[addresses |-> addresses],
                        [bns |-> amountsOf(LAMBDA r : r.amount)]>>,
             value |-> SumOf(amountsOf(LAMBDA r : r.amount))]
       [] f.op = "sendEthEqualBatch" ->
            [method |-> "multiTransferEqual_L1R",
             args |-> <<[addresses |-> list], [bn |-> ValueOfNumeral(q.amount)]>>,
             value |-> ValueOfNumeral(q.amount) * n]
       [] f.op = "sendTokenBatch" ->
            [method |-> "multiTransferToken_a4A",
             args |-> <<[address |-> q.tokenAddress], [addresses |-> addresses],
                        [bns |-> amountsOf(LAMBDA r : r.amount)],
                        [bn |-> SumOf(amountsOf(LAMBDA r : r.amount))]>>,
             value |-> 0]
       [] f.op = "sendTokenEqualBatch" ->
            [method |-> "multiTransferTokenEqual_71p",
             args |-> <<[address |-> q.tokenAddress], [addresses |-> list],
                        [bn |-> ValueOfNumeral(q.amount)]>>,
             value |-> 0]
       [] f.op = "sendMixedBatch" ->
            [method |-> "multiTransferTokenEther",
             args |-> <<[address |-> q.tokenAddress], [addresses |-> addresses],
                        [bns |-> amountsOf(LAMBDA r : r.tokenAmount)],
                        [bn |-> SumOf(amountsOf(LAMBDA r : r.tokenAmount))],
                        [bns |-> amountsOf(LAMBDA r : r.ethAmount)]>>,
             value |-> SumOf(amountsOf(LAMBDA r : r.ethAmount))]
       [] f.op = "sendMixedEqualBatch" ->
            [method |-> "multiTransferTokenEtherEqual",
             args |-> <<[address |-> q.tokenAddress], [addresses |-> list],
                        [bn |-> ValueOfNumeral(q.tokenAmount)],
                        [bn |-> ValueOfNumeral(q.ethAmount)]>>,
             value |-> ValueOfNumeral(q.ethAmount) * n]

\* C5: a successful send of each of the six variants has submitted exactly
\* one contract call: the entry point of the variant, with the positional
\* arguments of the variant table in input order, carrying the aggregated
\* native-coin total (nothing, i.e. zero, for the pure-token variants).
C5_DispatchMatchesVariantTable ==
  (frame.op \in VariantSendOps /\ HasReturned) =>
    LET expected == ExpectedDispatch(frame) IN
    /\ CountIssued("send") = 1
    /\ LastCall.kind = "send"
    /\ LastCall.method = expected.method
    /\ LastCall.args = expected.args
    /\ AttachedValue(LastCall.overrides) = expected.value

C5_Witness ==
  /\ frame.op = "sendMixedBatch"
  /\ HasReturned
  /\ Len(Get(frame.params.recipients)) = 2
  /\ LastCall.overrides.value = {<<"3">>}

(***************************************************************************)
(* C6                                                                      *)
(***************************************************************************)
\* the call the send operation of the same variant prepares for the request
\* of an estimate
SendCounterpart(f) ==
  LET q == f.params IN
  CASE f.op = "estimateEthBatchGas" -> sendEthBatch_call(Get(q.recipients), f.options)
    [] f.op = "estimateEthEqualBatchGas" ->
         sendEthEqualBatch_call(Get(q.addresses), q.amount, f.options)
    [] f.op = "estimateTokenBatchGas" ->
         sendTokenBatch_call(q.tokenAddress, Get(q.recipients), f.options)
    [] f.op = "estimateTokenEqualBatchGas" ->
         sendTokenEqualBatch_call(q.tokenAddress, Get(q.addresses), q.amount, f.options)
    [] f.op = "estimateMixedBatchGas" ->
         sendMixedBatch_call(q.tokenAddress, Get(q.recipients), f.options)
    [] f.op = "estimateMixedEqualBatchGas" ->
         sendMixedEqualBatch_call(q.tokenAddress, Get(q.addresses), q.tokenAmount,
                                  q.ethAmount, f.options)

\* C6: an estimate of each of the six variants that reaches the gas
\* simulation passes it the method name, the positional arguments and the
\* value that the send of that variant passes to the contract for the same
\* request.
C6_EstimateForwardsSendCall ==
  (frame.op \in VariantEstimateOps /\ net # <<>>) =>
    LET send == SendCounterpart(frame) IN
    /\ net[1].kind = "estimateGas"
    /\ net[1].method = send.method
    /\ net[1].args = send.args
    /\ ValueOfNumeral(net[1].overrides.value) = AttachedValue(send.overrides)

C6_Witness ==
  /\ frame.op = "estimateTokenEqualBatchGas"
  /\ frame.params.addresses = {<<"B", "A">>}
  /\ frame.params.amount = <<"2">>
  /\ HasReturned

(***************************************************************************)
(* C7                                                                      *)
(***************************************************************************)
\* the amount fields of a send or estimate request
AmountFields(f) ==
  LET q == f.params IN
  IF f.op \in {"sendEthToTwo", "estimateEthToTwoGas"} THEN {q.amount1, q.amount2}
  ELSE IF "recipients" \in DOMAIN q
    THEN LET list == Get(q.recipients) IN
         IF "tokenAddress" \in DOMAIN q /\ f.op \in {"sendMixedBatch", "estimateMixedBatchGas"}
           THEN { list[i].tokenAmount : i \in 1..Len(list) }
                  \cup { list[i].ethAmount : i \in 1..Len(list) }
           ELSE { list[i].amount : i \in 1..Len(list) }
  ELSE IF f.op \in {"sendMixedEqualBatch", "estimateMixedEqualBatchGas"}
    THEN {q.tokenAmount, q.ethAmount}
  ELSE {q.amount}

\* C7 (as claimed): a send or estimate whose request passes the collection
\* and signer checks and has an amount field that is no non-negative integer
\* fails with InvalidAmount before any network call.
C7_NonNegativeAmountsEnforced ==
  (/\ frame.op \in VariantSendOps \cup EstimateOps \cup {"sendEthToTwo"}
   /\ pc # "idle"
   /\ result.error.type \notin {"EmptyRecipientSet", "NoSignerAttached"}
   /\ \E a \in AmountFields(frame) : ~IsNonNegativeInteger(a)) =>
    /\ ThrewType("InvalidAmount")
    /\ net = <<>>

(***************************************************************************)
(* C8                                                                      *)
(***************************************************************************)
\* the caller supplied a gas price (an empty string supplies none)
SuppliedGasPrice(f) == f.options.gasPrice # {} /\ f.options.gasPrice # {<<>>}

\* C8: every GasEstimation an estimate returns has the simulated gas limit,
\* the caller's gas price when one is supplied (and then no price query is
\* made) and otherwise the price the network price query returned, and a
\* total cost of exactly gasLimit x gasPrice.
C8_GasEstimationFields ==
  (frame.op \in EstimateOps /\ HasReturned) =>
    LET estimation == result.value IN
    /\ CountIssued("estimateGas") = 1
    /\ estimation.gasLimit = Get(frame.gasLimit)
    /\ IF SuppliedGasPrice(frame)
         THEN /\ estimation.gasPrice = ValueOfNumeral(Get(frame.options.gasPrice))
              /\ ~Issued("getGasPrice")
         ELSE /\ LastCall.kind = "getGasPrice"
              /\ estimation.gasPrice = Get(frame.gasPrice)
    /\ estimation.totalCost = estimation.gasLimit * estimation.gasPrice

C8_Witness ==
  /\ frame.op = "estimateMixedBatchGas"
  /\ HasReturned
  /\ ~SuppliedGasPrice(frame)
  /\ result.value.gasLimit = MaxGas
  /\ result.value.gasPrice = MaxPrice
  /\ result.value.totalCost = MaxGas * MaxPrice

(***************************************************************************)
(* C9                                                                      *)
(***************************************************************************)
\* the gas simulation of the running estimate was issued and rejected
SimulationFailed ==
  /\ frame.op \in EstimateOps
  /\ net # <<>>
  /\ LastCall.kind = "estimateGas"
  /\ frame.rejection # {}

\* C9: an estimate whose gas simulation rejected has failed with
\* EstimationFailed carrying the underlying reason, and an estimate that
\* returned a GasEstimation had a successful simulation.
C9_FailedSimulationNeverEstimates ==
  /\ SimulationFailed =>
       /\ ThrewType("EstimationFailed")
       /\ result.error.cause = Get(frame.rejection).type
  /\ (frame.op \in EstimateOps /\ HasReturned) =>
       (frame.rejection = {} /\ frame.gasLimit # {})

C9_Witness ==
  /\ SimulationFailed
  /\ frame.rejection = {Revert}
  /\ result.error.cause = "Revert"

(***************************************************************************)
(* C10                                                                     *)
(***************************************************************************)
\* the collaborator call the running method awaited last rejected
Rejected(kinds) == Done /\ frame.rejection # {} /\ LastCall.kind \in kinds

\* C10 (as claimed): a transport failure of the signer address lookup, the
\* allowance query, the network gas-price query or the submission reaches
\* the caller as the same error.
C10_TransportFailuresUnmodified ==
  (Rejected({"getAddress", "allowance", "getGasPrice", "send", "approve"})
     /\ frame.rejection = {TransportFailure}) =>
    (result.status = "thrown" /\ result.error = TransportFailure)

\* C10 (amended): a failure of the signer address lookup, the allowance query
\* or the submission (of a contract call or of an approval) reaches the caller
\* as the same error; every failure inside estimateGas (the simulation, the
\* price query, a gas-price option that is no number) is thrown as a new
\* EstimationFailed error embedding it, and a failed price query of
\* getGasPrices as a new GasPriceFailed error embedding it; no other error
\* embeds another.
C10_PropagationPolicy ==
  /\ Rejected({"getAddress", "allowance", "send", "approve"}) =>
       result = Thrown(Get(frame.rejection))
  /\ (Rejected({"estimateGas", "getGasPrice"}) /\ frame.op \in EstimateOps) =>
       result = Thrown(Err("EstimationFailed", <<>>, Get(frame.rejection).type))
  /\ (Rejected({"getGasPrice"}) /\ frame.op = "getGasPrices") =>
       result = Thrown(Err("GasPriceFailed", <<>>, Get(frame.rejection).type))
  /\ (result.status = "thrown" /\ result.error.cause # "none") =>
       \/ frame.op \in EstimateOps /\ result.error.type = "EstimationFailed"
       \/ frame.op = "getGasPrices" /\ result.error.type = "GasPriceFailed"
  /\ (result.status = "thrown" /\ frame.rejection = {}) =>
       result.error.type \in {"EmptyRecipientSet", "NoSignerAttached", "InvalidAmount",
                              "InsufficientAllowance", "EstimationFailed"}

C10_Witness ==
  /\ Rejected({"allowance"})
  /\ frame.op = "sendTokenEqualBatch"
  /\ result = Thrown(TransportFailure)

(***************************************************************************)
(* C11                                                                     *)
(***************************************************************************)
\* the overrides object of the contract call the running send has prepared
Envelope == frame.call.overrides

\* C11 (as claimed): in every send of the six variants and in sendEthToTwo the
\* envelope's gasLimit is options.gasLimit when the caller supplies one and
\* otherwise the configured default, its gasPrice is options.gasPrice when
\* supplied (an empty string supplies none) and otherwise the configured
\* default, each on its own, and its nonce is exactly the caller's nonce.
C11_EnvelopeFromOptionsThenDefaults ==
  (frame.op \in VariantSendOps \cup {"sendEthToTwo"} /\ frame.call # NoCall) =>
    /\ Envelope.gasLimit = IF frame.options.gasLimit # {} THEN frame.options.gasLimit
                           ELSE defaultGasLimit
    /\ Envelope.gasPrice = IF SuppliedGasPrice(frame) THEN frame.options.gasPrice
                           ELSE defaultGasPrice
    /\ Envelope.nonce = frame.options.nonce

(***************************************************************************)
(* C12                                                                     *)
(***************************************************************************)
\* C12 (as claimed): connect returns a TransactiBatch instance other than the
\* one it was called on, and the instance it was called on keeps the binding
\* it had (it is not turned into a signer-bound one).
C12_ConnectReturnsNewInstance ==
  connectResult # {} =>
    /\ Get(connectResult).instance # This
    /\ contract = Get(connectResult).found

(***************************************************************************)
(* C13                                                                     *)
(***************************************************************************)
\* every reordering of a sequence
Reorderings(seq) ==
  LET n == Len(seq)
      bijections == { pi \in [1..n -> 1..n] : \A i, j \in 1..n : pi[i] = pi[j] => i = j }
  IN  { [i \in 1..n |-> seq[pi[i]]] : pi \in bijections }

\* `count` recipients all carrying the same amount
Uniform(addresses, amount) ==
  [i \in 1..Len(addresses) |-> [address |-> addresses[i], amount |-> amount]]
UniformMixed(addresses, tokenAmount, ethAmount) ==
  [i \in 1..Len(addresses) |->
     [address |-> addresses[i], tokenAmount |-> tokenAmount, ethAmount |-> ethAmount]]

\* the arithmetic sum of the integers a list of numerals denotes
SumOfNumerals(strings) == SumOf([i \in 1..Len(strings) |-> ValueOfNumeral(strings[i])])

\* the native-coin total and the token total the running send aggregated
TotalValue == AttachedValue(frame.call.overrides)
TotalTokens == Get(frame.totalAmount)

\* C13: the total a variable-amount send aggregates is the arithmetic sum of
\* the parsed amounts and is what the same send aggregates for every
\* reordering of the recipients; the total an equal-amount send aggregates is
\* amount x count and is what the variable-amount send of that variant
\* aggregates for count recipients all carrying that amount.
C13_AggregatedTotals ==
  frame.call # NoCall =>
    LET q == frame.params IN
    CASE frame.op = "sendEthBatch" ->
           LET list == Get(q.recipients) IN
           /\ TotalValue = SumOfNumerals(Amounts(list))
           /\ \A p \in Reorderings(list) :
                AttachedValue(sendEthBatch_call(p, frame.options).overrides) = TotalValue
      [] frame.op = "sendTokenBatch" ->
           LET list == Get(q.recipients) IN
           /\ TotalTokens = SumOfNumerals(Amounts(list))
           /\ \A p \in Reorderings(list) : sendTokenBatch_totalAmount(p) = TotalTokens
      [] frame.op = "sendMixedBatch" ->
           LET list == Get(q.recipients) IN
           /\ TotalTokens = SumOfNumerals(TokenAmounts(list))
           /\ TotalValue = SumOfNumerals(EthAmounts(list))
           /\ \A p \in Reorderings(list) :
                /\ sendMixedBatch_totalTokenAmount(p) = TotalTokens
                /\ AttachedValue(sendMixedBatch_call(q.tokenAddress, p, frame.options).overrides)
                     = TotalValue
      [] frame.op = "sendEthEqualBatch" ->
           LET list == Get(q.addresses) IN
           /\ TotalValue = ValueOfNumeral(q.amount) * Len(list)
           /\ TotalValue = AttachedValue(
                sendEthBatch_call(Uniform(list, q.amount), frame.options).overrides)
      [] frame.op = "sendTokenEqualBatch" ->
           LET list == Get(q.addresses) IN
           /\ TotalTokens = ValueOfNumeral(q.amount) * Len(list)
           /\ TotalTokens = sendTokenBatch_totalAmount(Uniform(list, q.amount))
      [] frame.op = "sendMixedEqualBatch" ->
           LET list == Get(q.addresses)
               uniform == UniformMixed(list, q.tokenAmount, q.ethAmount) IN
           /\ TotalTokens = ValueOfNumeral(q.tokenAmount) * Len(list)
           /\ TotalValue = ValueOfNumeral(q.ethAmount) * Len(list)
           /\ TotalTokens = sendMixedBatch_totalTokenAmount(uniform)
           /\ TotalValue = AttachedValue(
                sendMixedBatch_call(q.tokenAddress, uniform, frame.options).overrides)
      [] OTHER -> TRUE

C13_Witness ==
  /\ frame.op = "sendMixedBatch"
  /\ frame.call # NoCall
  /\ Len(Get(frame.params.recipients)) = MaxRecipients
  /\ TotalTokens = 3
  /\ TotalValue = 3

(***************************************************************************)
(* C14                                                                     *)
(***************************************************************************)
\* q is the quotient of n by d, truncated
IsFloorOf(q, n, d) == d * q <= n /\ n < d * (q + 1)

\* C14: getGasPrices returns, for the network price p, slow = floor(90p/100),
\* average = p and fast = floor(120p/100), so that slow <= average <= fast;
\* a send takes its gas price from the options or the configuration and a
\* returned estimate from the options or its own price query, never from
\* tiers computed earlier.
C14_GasPriceTiers ==
  /\ (frame.op = "getGasPrices" /\ HasReturned) =>
       LET p == Get(frame.gasPrice)
           tiers == result.value IN
       /\ net = <<[kind |-> "getGasPrice", provider |-> provider]>>
       /\ IsFloorOf(tiers.slow, 90 * p, 100)
       /\ tiers.average = p
       /\ IsFloorOf(tiers.fast, 120 * p, 100)
       /\ tiers.slow <= tiers.average /\ tiers.average <= tiers.fast
  /\ (frame.op \in VariantSendOps \cup {"sendEthToTwo"} /\ frame.call # NoCall) =>
       Envelope.gasPrice \in {frame.options.gasPrice, defaultGasPrice}
  /\ (frame.op \in EstimateOps /\ HasReturned) =>
       \/ SuppliedGasPrice(frame)
            /\ result.value.gasPrice = ValueOfNumeral(Get(frame.options.gasPrice))
       \/ LastCall.kind = "getGasPrice" /\ result.value.gasPrice = Get(frame.gasPrice)

C14_Witness ==
  /\ frame.op = "getGasPrices"
  /\ HasReturned
  /\ result.value.average = MaxPrice
  /\ result.value.slow < MaxPrice
  /\ result.value.fast > MaxPrice

(***************************************************************************)
(* C15                                                                     *)
(***************************************************************************)
\* the positional arguments of the two-party transfer, from the request alone
TwoPartyArgs(q) ==
  <<[address |-> q.recipient1], [bn |-> ValueOfNumeral(q.amount1)],
    [address |-> q.recipient2], [bn |-> ValueOfNumeral(q.amount2)]>>
TwoPartyValue(q) == ValueOfNumeral(q.amount1) + ValueOfNumeral(q.amount2)

\* C15: sendEthToTwo submits transfer2(recipient1, amount1, recipient2,
\* amount2) carrying amount1 + amount2, and estimateEthToTwoGas passes the
\* same method, arguments and value to the gas simulation.
C15_TwoPartyTransfer ==
  /\ (frame.op = "sendEthToTwo" /\ net # <<>>) =>
       /\ net[1].kind = "send"
       /\ net[1].method = "transfer2"
       /\ net[1].args = TwoPartyArgs(frame.params)
       /\ AttachedValue(net[1].overrides) = TwoPartyValue(frame.params)
       /\ CountIssued("send") = Len(net)
       /\ Len(net) = 1
  /\ (frame.op = "estimateEthToTwoGas" /\ net # <<>>) =>
       /\ net[1].kind = "estimateGas"
       /\ net[1].method = "transfer2"
       /\ net[1].args = TwoPartyArgs(frame.params)
       /\ ValueOfNumeral(net[1].overrides.value) = TwoPartyValue(frame.params)

C15_Witness ==
  /\ frame.op = "sendEthToTwo"
  /\ HasReturned
  /\ frame.params.amount1 = <<"1">>
  /\ frame.params.amount2 = <<"2">>
  /\ LastCall.overrides.value = {<<"3">>}

(***************************************************************************)
(* C16                                                                     *)
(***************************************************************************)
\* approveTokenSpending is called in this step
ApproveCalled == pc = "idle" /\ frame'.op = "approveTokenSpending" /\ pc' # "idle"

\* C16: approveTokenSpending called with no signer attached fails with
\* NoSignerAttached and issues no call; called with a signer attached it
\* issues one approve(spender, amount) call on the token, with the batch
\* contract address as spender, the caller's amount and the attached signer,
\* and no further call while it runs.
C16_ApproveTokenSpending ==
  [][/\ ApproveCalled =>
          IF contract.signer = {}
            THEN /\ pc' = "done"
                 /\ result' = Thrown(NoSignerAttached)
                 /\ net' = <<>>
            ELSE /\ Len(net') = 1
                 /\ net'[1].kind = "approve"
                 /\ net'[1].method = "approve"
                 /\ net'[1].token = frame'.params.tokenAddress
                 /\ net'[1].args = <<[address |-> contractAddress],
                                     [str |-> frame'.params.amount]>>
                 /\ net'[1].signer = contract.signer
     /\ (frame.op = "approveTokenSpending" /\ pc # "idle" /\ pc' # "idle") => net' = net
    ]_vars

C16_Witness ==
  /\ frame.op = "approveTokenSpending"
  /\ HasReturned
  /\ Len(net) = 1
  /\ net[1].args = <<[address |-> "C"], [str |-> <<"2">>]>>
  /\ net[1].signer = {"S1"}

(***************************************************************************)
(* C17                                                                     *)
(***************************************************************************)
\* the running estimate is over and repeats the call the caller kept
SecondEstimateDone ==
  /\ previous # NoPrevious
  /\ Done
  /\ frame.op \in EstimateOps
  /\ frame.op = previous.op
  /\ frame.params = previous.params
  /\ frame.options = previous.options

RequiredTokens(f) ==
  LET q == f.params IN
  CASE f.op = "sendTokenBatch" -> SumOfNumerals(Amounts(Get(q.recipients)))
    [] f.op = "sendTokenEqualBatch" -> ValueOfNumeral(q.amount) * Len(Get(q.addresses))
    [] f.op = "sendMixedBatch" -> SumOfNumerals(TokenAmounts(Get(q.recipients)))
    [] f.op = "sendMixedEqualBatch" -> ValueOfNumeral(q.tokenAmount) * Len(Get(q.addresses))

\* C18: in a token or mixed send the allowance query names the request's
\* token, the address of the attached signer as owner and the batch contract
\* address as spender; an allowance of at least the aggregated token total
\* (an equal one included) leads to the submission of the prepared call, a
\* smaller one to InsufficientAllowance quoting exactly that total.
C18_AllowanceQueryAndVerdict ==
  (frame.op \in TokenSendOps /\ Issued("allowance")) =>
    LET query == net[2]
        required == RequiredTokens(frame) IN
    /\ net[1] = [kind |-> "getAddress", signer |-> contract.signer]
    /\ query.kind = "allowance"
    /\ query.token = frame.params.tokenAddress
    /\ query.owner = AddressOf(Get(contract.signer))
    /\ query.spender = contractAddress
    /\ query.provider = provider
    /\ frame.totalAmount = {required}
    /\ frame.allowance # {} =>
         IF Get(frame.allowance) >= required
           THEN /\ Len(net) = 3
                /\ net[3].kind = "send"
                /\ net[3].method = frame.call.method
                /\ net[3].args = frame.call.args
                /\ result.error.type # "InsufficientAllowance"
           ELSE /\ Len(net) = 2
                /\ ThrewType("InsufficientAllowance")
                /\ result.error.quoted = Decimal(required)

C18_Witness ==
  /\ frame.op = "sendTokenBatch"
  /\ frame.totalAmount = {3}
  /\ frame.allowance = frame.totalAmount
  /\ Len(Get(frame.params.recipients)) = 2
  /\ HasReturned

(***************************************************************************)
(* C19                                                                     *)
(***************************************************************************)
SendOps == VariantSendOps \cup {"sendEthToTwo"}

\* the kinds of the network calls issued so far, in order
Kinds == [i \in 1..Len(net) |-> net[i].kind]
IsPrefix(s, t) == Len(s) <= Len(t) /\ s = SubSeq(t, 1, Len(s))

\* the network steps of a send come in the order of its variant, each at most
\* once; the allowance query follows the aggregation and has answered
\* (sufficient) before the submission is issued; a send that succeeded has
\* made exactly one submission; a send that failed has stopped
C19_Sequential ==
  frame.op \in SendOps =>
    /\ IsPrefix(Kinds, IF frame.op \in TokenSendOps
                         THEN <<"getAddress", "allowance", "send">> ELSE <<"send">>)
    /\ Issued("allowance") => frame.totalAmount # {} /\ frame.signerAddress # {}
    /\ (frame.op \in TokenSendOps /\ Issued("send")) => frame.hasAllowance = {TRUE}
    /\ HasReturned => CountIssued("send") = 1 /\ LastCall.kind = "send"
    /\ result.status = "thrown" => pc = "done"

\* while a send runs every step issues at most one further call, and once it
\* has failed none
C19_NoRetry ==
  (frame.op \in SendOps /\ frame'.op = frame.op /\ pc # "idle" /\ pc' # "idle") =>
    /\ net' = net \/ (Len(net') = Len(net) + 1 /\ IsPrefix(net, net'))
    /\ result.status = "thrown" => net' = net
    /\ result'.status = "thrown" => net' = net

\* C19: within one send the network-facing steps are issued strictly in
\* sequence and at most once each (allowance query after aggregation and
\* answered before the submission, exactly one submission on success), and
\* after a failing step no further network call is issued.
C19_StrictSequence == []C19_Sequential /\ [][C19_NoRetry]_vars

C19_Witness ==
  /\ frame.op = "sendMixedBatch"
  /\ HasReturned
  /\ Kinds = <<"getAddress", "allowance", "send">>

(***************************************************************************)
(* C20                                                                     *)
(***************************************************************************)
\* C20: an estimate issues no submission, no allowance query and no signer
\* address lookup, whatever the request, the options and the signer; its
\* network calls are one gas simulation, followed by one gas-price query only
\* if the simulation succeeded and the caller supplied no gas price.
C20_EstimatesOnlySimulate ==
  frame.op \in EstimateOps =>
    /\ ~Issued("send") /\ ~Issued("approve")
    /\ ~Issued("allowance") /\ ~Issued("getAddress")
    /\ IsPrefix(Kinds, <<"estimateGas", "getGasPrice">>)
    /\ Issued("getGasPrice") => (frame.gasLimit # {} /\ ~SuppliedGasPrice(frame))
    /\ (SimulationFailed \/ SuppliedGasPrice(frame)) => Len(net) <= 1

C20_Witness ==
  /\ frame.op = "estimateMixedEqualBatchGas"
  /\ contract.signer # {}
  /\ HasReturned
  /\ Kinds = <<"estimateGas", "getGasPrice">>

(***************************************************************************)
(* C21                                                                     *)
(***************************************************************************)
\* the fields hold one configuration a constructor can have set, and the
\* contract binding is one for that contract address and provider
C21_AsConstructed ==
  /\ \E config \in ConfigSet :
       /\ provider = config.provider
       /\ contractAddress = config.contractAddress
       /\ defaultGasLimit = config.defaultGasLimit
       /\ defaultGasPrice = config.defaultGasPrice
  /\ contract.address = contractAddress
  /\ contract.provider = provider

\* a step of a method call (of a send, an estimate, getGasPrices or
\* approveTokenSpending, successful or failing), as opposed to connect
MethodStep == pc' # pc \/ frame' # frame \/ net' # net \/ result' # result

\* no step changes the four configured fields; the binding changes in no step
\* of a method call, only in connect, which attaches a signer to it; a signer
\* once attached stays attached
C21_OnlyConnectRebinds ==
  /\ provider' = provider
  /\ contractAddress' = contractAddress
  /\ defaultGasLimit' = defaultGasLimit
  /\ defaultGasPrice' = defaultGasPrice
  /\ MethodStep => contract' = contract
  /\ contract' # contract =>
       /\ contract'.signer # {}
       /\ contract' = [contract EXCEPT !.signer = contract'.signer]
       /\ connectResult' = {[instance |-> This, found |-> contract]}
  /\ contract.signer # {} => contract'.signer # {}

\* C21: after any sequence of operations the provider, the contract address
\* and the two gas defaults are as set at construction; the contract binding
\* changes only in connect, never in a send, an estimate, getGasPrices or
\* approveTokenSpending, and never returns to the signer-less state.
C21_FieldsFrame == []C21_AsConstructed /\ [][C21_OnlyConnectRebinds]_vars

C21_Witness ==
  /\ frame.op = "approveTokenSpending"
  /\ HasReturned
  /\ contract = [address |-> "C", provider |-> "P", signer |-> {"S1"}]
  /\ connectResult # {}
  /\ Get(connectResult).found.signer # {}
  /\ defaultGasLimit = {9}
  /\ defaultGasPrice = {}

====
